---- MODULE Spec2Model ----
(***************************************************************************)
(* Model of create-mock-server: the flat-route prefixing (addRoutesPrefix), *)
(* the path join (joinPaths), the nested route parser (parseRoutes), the   *)
(* middleware normalizer (parseMiddlewares), the bootstrap ordering        *)
(* (bootstrapApp), the router builder (createH3Router), the two server     *)
(* constructors and the listen/close lifecycle of the mock server.         *)
(*                                                                         *)
(* A JavaScript string is a sequence of one-character strings, so that     *)
(* startsWith, endsWith, slice, trim, join and replace are computed on      *)
(* characters.  A function value is known by its identity only.            *)
(***************************************************************************)
EXTENDS Integers, Sequences, FiniteSets, TLC

VARIABLES
  pc,                 \* "init" before the call, "done" once it has returned
  routes,             \* addRoutesPrefix: the routes argument
  prefix,             \* addRoutesPrefix: the prefix argument
  prefixedRoutes,     \* addRoutesPrefix: the array returned
  tree,               \* parseRoutes: the routes argument
  parsedRoutes,       \* parseRoutes: the array returned
  middlewares,        \* parseMiddlewares: the middlewares argument
  parsedMiddlewares,  \* parseMiddlewares: the array returned
  mockMiddlewares,    \* bootstrapApp: the middlewares argument
  appUse,             \* bootstrapApp: the app.use calls made so far, in order
  routerRoutes,       \* createH3Router: the routes argument
  routerPrefix,       \* createH3Router: options.prefix
  baseRouter,         \* createH3Router: the calls on the router it returns
  nestedRouter,       \* createH3Router: the calls on the nested router
  warnings,           \* createH3Router: the console.warn calls
  appRoutes,          \* createAppServer: options.routes
  appMiddlewares,     \* createAppServer: options.middlewares
  appCalls,           \* createAppServer: the calls on the app and serve, in order
  port,               \* createMockServer: options.port
  serverPort,         \* server.port, 0 for undefined
  serverUrl,          \* server.url: the port its text ends in, 0 for undefined
  httpPort,           \* the port server.http is bound to, 0 when it has no handle
  otherPorts,         \* the ports bound by other processes
  calls,              \* the listen calls made so far and their promises
  errorListeners,     \* the 'error' listeners of server.http, in order
  listeningListeners, \* the once('listening') callbacks of server.http, in order
  pendingListening,   \* a 'listening' event of server.http is due
  pendingErrors,      \* the number of EADDRINUSE 'error' events of server.http due
  probes,             \* the findAvailablePort runs in progress
  lastOp,             \* the last call the user has awaited: none, listen or close
  envStable,          \* no other process bound or released a port since the last listen call
  segments,           \* joinPaths: the segments it is called with
  joinedPath,         \* joinPaths: the string returned
  rejoinedPath        \* joinPaths: the string returned for its own result

prefixVars == <<routes, prefix, prefixedRoutes>>

routesVars == <<tree, parsedRoutes>>

middlewareVars == <<middlewares, parsedMiddlewares>>

bootstrapVars == <<mockMiddlewares, appUse>>

routerVars == <<routerRoutes, routerPrefix, baseRouter, nestedRouter, warnings>>

appVars == <<appRoutes, appMiddlewares, appCalls>>

serverVars ==
  <<port, serverPort, serverUrl, httpPort, otherPorts, calls, errorListeners,
    listeningListeners, pendingListening, pendingErrors, probes, lastOp, envStable>>

joinVars == <<segments, joinedPath, rejoinedPath>>

vars ==
  <<pc, prefixVars, routesVars, middlewareVars, bootstrapVars, routerVars, appVars,
    serverVars, joinVars>>

\* the variables of a function that the specification at hand does not call
prefixIdle == routes = <<>> /\ prefix = <<>> /\ prefixedRoutes = <<>>

routesIdle == tree = <<>> /\ parsedRoutes = <<>>

middlewareIdle == middlewares = <<>> /\ parsedMiddlewares = <<>>

bootstrapIdle == mockMiddlewares = <<>> /\ appUse = <<>>

routerIdle ==
  /\ routerRoutes = <<>>
  /\ routerPrefix = <<>>
  /\ baseRouter = <<>>
  /\ nestedRouter = <<>>
  /\ warnings = <<>>

joinIdle == segments = <<>> /\ joinedPath = <<>> /\ rejoinedPath = <<>>

appIdle == appRoutes = <<>> /\ appMiddlewares = <<>> /\ appCalls = <<>>

serverIdle ==
  /\ port = 0
  /\ serverPort = 0
  /\ serverUrl = 0
  /\ httpPort = 0
  /\ otherPorts = {}
  /\ calls = <<>>
  /\ errorListeners = <<>>
  /\ listeningListeners = <<>>
  /\ pendingListening = FALSE
  /\ pendingErrors = 0
  /\ probes = <<>>
  /\ lastOp = "none"
  /\ envStable = TRUE

(***************************************************************************)
(* Bounds of the inputs.                                                   *)
(***************************************************************************)
MaxRoutes == 2
MaxPrefixLen == 3
MaxWeight == 3
MaxEntries == 2
MaxMockMiddlewares == 3
MaxDepth == 3
MaxAppWeight == 2
MaxPort == 3
MaxListens == 2
MaxSegments == 3
MaxSegmentLen == 2

\* the value of an absent property or argument
Undefined == "undefined"

\* characters a prefix is drawn from: a slash, a letter, a blank
PrefixChars == {"/", "a", " "}

\* urls of the flat routes: empty, the root, with and without leading slash
Urls == {<<>>, <<"/">>, <<"/", "a">>, <<"a">>}

\* the method field of a MethodOption, absent included
FlatMethods == {"get", "post", Undefined}

StringsUpTo(chars, n) == UNION {[1..k -> chars] : k \in 0..n}

(***************************************************************************)
(* String primitives of the language runtime.                              *)
(***************************************************************************)
WhiteSpace == {" "}

startsWith(s, c) == Len(s) > 0 /\ s[1] = c

endsWith(s, c) == Len(s) > 0 /\ s[Len(s)] = c

\* s.slice(0, -1)
sliceLast(s) == IF Len(s) = 0 THEN s ELSE SubSeq(s, 1, Len(s) - 1)

RECURSIVE trimStart(_)
trimStart(s) ==
  IF Len(s) > 0 /\ s[1] \in WhiteSpace THEN trimStart(Tail(s)) ELSE s

RECURSIVE trimEnd(_)
trimEnd(s) ==
  IF Len(s) > 0 /\ s[Len(s)] \in WhiteSpace THEN trimEnd(sliceLast(s)) ELSE s

trim(s) == trimEnd(trimStart(s))


(***************************************************************************)
(* Values of the language runtime: a function, a plain object (its         *)
(* properties in insertion order, which is the order of Object.entries),   *)
(* or undefined.  id is the identity of the value: the path of keys that   *)
(* leads to it in the configuration literal.                               *)
(***************************************************************************)
Fn(id) == [kind |-> "function", id |-> id, props |-> <<>>]

Obj(id, props) == [kind |-> "object", id |-> id, props |-> props]

Undef == [kind |-> "undefined", id |-> <<>>, props |-> <<>>]

\* an array; its properties are its elements under the keys "0", "1", ...
Arr(id, props) == [kind |-> "array", id |-> id, props |-> props]

Null == [kind |-> "null", id |-> <<>>, props |-> <<>>]

\* a string value; its identity is its characters
Str(chars) == [kind |-> "string", id |-> chars, props |-> <<>>]

\* key in obj
has(obj, key) == \E i \in 1..Len(obj.props) : obj.props[i].key = key

\* obj[key]
get(obj, key) ==
  IF has(obj, key)
  THEN obj.props[CHOOSE i \in 1..Len(obj.props) : obj.props[i].key = key].val
  ELSE Undef

\* the truthiness test of if (value)
truthy(v) ==
  v.kind \in {"function", "object", "array"} \/ (v.kind = "string" /\ v.id # <<>>)

isFunction(v) == v.kind = "function"

\* src/src/util.ts 11: Array.isArray
isArray(v) == v.kind = "array"

\* src/src/util.ts 4-6: !!value && value.constructor === Object
isObject(v) == truthy(v) /\ v.kind = "object"

(***************************************************************************)
(* addRoutesPrefix, src/src/utils.ts 23-60                                 *)
(***************************************************************************)
\* the guard of the early return: !prefix || prefix.trim() === ''
isEmptyPrefix(p) == p = <<>> \/ trim(p) = <<>>

normalizedPrefix(p) == IF startsWith(p, "/") THEN p ELSE <<"/">> \o p

cleanPrefixKeepSlash(p) == normalizedPrefix(p)

cleanPrefix(p) ==
  IF endsWith(normalizedPrefix(p), "/") /\ normalizedPrefix(p) # <<"/">>
  THEN sliceLast(normalizedPrefix(p))
  ELSE normalizedPrefix(p)

prefixedUrlAlwaysJoin(url, cp) == cp \o url

prefixedUrl(url, cp) ==
  IF url = <<"/">>
  THEN (IF cp = <<"/">> THEN <<"/">> ELSE cp)
  ELSE IF startsWith(url, "/")
       THEN (IF cp = <<"/">> THEN url ELSE cp \o url)
       ELSE cp \o <<"/">> \o url

\* { url: prefixedUrl, ...otherOptions }
prefixRouteDefaultMethod(route, cp) ==
  [url |-> prefixedUrl(route.url, cp),
   method |-> IF route.method = Undefined THEN "get" ELSE route.method,
   handler |-> route.handler]

prefixRoute(route, cp) ==
  [url |-> prefixedUrl(route.url, cp),
   method |-> route.method,
   handler |-> route.handler]

addRoutesPrefix(rs, p) ==
  IF isEmptyPrefix(p)
  THEN rs
  ELSE [i \in 1..Len(rs) |-> prefixRoute(rs[i], cleanPrefix(p))]

(***************************************************************************)
(* Inputs of the prefixing: every array of at most MaxRoutes flat routes,  *)
(* the handler of a route being a function of its own.                     *)
(***************************************************************************)
FlatRoutes(n) ==
  {[i \in 1..n |-> [url |-> us[i], method |-> ms[i], handler |-> i]] :
     us \in [1..n -> Urls], ms \in [1..n -> FlatMethods]}

RouteArrays == UNION {FlatRoutes(n) : n \in 0..MaxRoutes}

InitPrefix ==
  /\ pc = "init"
  /\ routes \in RouteArrays
  /\ prefix \in StringsUpTo(PrefixChars, MaxPrefixLen)
  /\ prefixedRoutes = <<>>
  /\ routesIdle
  /\ middlewareIdle
  /\ bootstrapIdle
  /\ routerIdle
  /\ appIdle
  /\ serverIdle
  /\ joinIdle

CallAddRoutesPrefix ==
  /\ pc = "init"
  /\ prefixedRoutes' = addRoutesPrefix(routes, prefix)
  /\ pc' = "done"
  /\ UNCHANGED <<routes, prefix, routesVars, middlewareVars, bootstrapVars, routerVars,
                 appVars, serverVars, joinVars>>

NextPrefix == CallAddRoutesPrefix

SpecPrefix == InitPrefix /\ [][NextPrefix]_vars

urlsOf(rs) == [i \in 1..Len(rs) |-> rs[i].url]

hasNonBlank(s) == \E i \in 1..Len(s) : s[i] \notin WhiteSpace

\* C1: with the prefix empty, whitespace-only or exactly "/", addRoutesPrefix
\* returns an array equal to the input, element by element, field by field.
C1_NoopPrefixReturnsInput ==
  (pc = "done" /\ (prefix = <<>> \/ ~hasNonBlank(prefix) \/ prefix = <<"/">>))
    => prefixedRoutes = routes

\* what C2 says url becomes under the prefix p
rewrittenUrl(url, p) ==
  IF url = <<"/">> THEN <<"/">> \o p
  ELSE IF startsWith(url, "/") THEN <<"/">> \o p \o url
  ELSE <<"/">> \o p \o <<"/">> \o url

bareSegment(p) == ~startsWith(p, "/") /\ ~endsWith(p, "/")

\* C2 as stated: for every non-empty prefix p without leading or trailing
\* slash, url "/" becomes "/"+p, a url with leading slash "/"+p+url, any other
\* url "/"+p+"/"+url.
C2_EveryNonEmptyPrefixRewrites ==
  (pc = "done" /\ prefix # <<>> /\ bareSegment(prefix))
    => \A i \in 1..Len(routes) :
         prefixedRoutes[i].url = rewrittenUrl(routes[i].url, prefix)

\* C2 amended: the same rewriting for every prefix p without leading or
\* trailing slash that holds at least one non-whitespace character.
C2_NonBlankPrefixRewrites ==
  (pc = "done" /\ hasNonBlank(prefix) /\ bareSegment(prefix))
    => /\ Len(prefixedRoutes) = Len(routes)
       /\ \A i \in 1..Len(routes) :
            prefixedRoutes[i].url = rewrittenUrl(routes[i].url, prefix)

C2_Witness ==
  /\ pc = "done"
  /\ hasNonBlank(prefix)
  /\ bareSegment(prefix)
  /\ \E i, j \in 1..Len(routes) :
       /\ routes[i].url = <<"/">>
       /\ prefixedRoutes[i].url = <<"/">> \o prefix
       /\ ~startsWith(routes[j].url, "/")
       /\ prefixedRoutes[j].url = <<"/">> \o prefix \o <<"/">> \o routes[j].url

\* the urls of the four spellings s, "/"+s, "/"+s+"/", s+"/" of a prefix agree
sameUnderSpellings(rs, s, urls) ==
  /\ urls = urlsOf(addRoutesPrefix(rs, s))
  /\ urls = urlsOf(addRoutesPrefix(rs, <<"/">> \o s))
  /\ urls = urlsOf(addRoutesPrefix(rs, <<"/">> \o s \o <<"/">>))
  /\ urls = urlsOf(addRoutesPrefix(rs, s \o <<"/">>))

\* C3 as stated: for every segment s (a non-empty string without leading or
\* trailing slash) the prefixes s, "/"+s, "/"+s+"/" and s+"/" give the same urls.
C3_EverySegmentSpellingAgrees ==
  (pc = "done" /\ prefix # <<>> /\ bareSegment(prefix))
    => sameUnderSpellings(routes, prefix, urlsOf(prefixedRoutes))

\* C3 amended: the four spellings give the same urls for every s without
\* leading or trailing slash that holds at least one non-whitespace character.
C3_NonBlankSegmentSpellingAgrees ==
  (pc = "done" /\ hasNonBlank(prefix) /\ bareSegment(prefix))
    => sameUnderSpellings(routes, prefix, urlsOf(prefixedRoutes))

C3_Witness ==
  /\ pc = "done"
  /\ hasNonBlank(prefix)
  /\ bareSegment(prefix)
  /\ Len(routes) > 0
  /\ urlsOf(prefixedRoutes) # urlsOf(routes)
  /\ urlsOf(prefixedRoutes) = urlsOf(addRoutesPrefix(routes, <<"/">> \o prefix \o <<"/">>))

\* C4: for every prefix the result has the length of the input, and at every
\* index the method and the handler of the input route; only url may differ.
C4_OrderAndFieldsPreserved ==
  pc = "done"
    => /\ Len(prefixedRoutes) = Len(routes)
       /\ \A i \in 1..Len(routes) :
            /\ prefixedRoutes[i].method = routes[i].method
            /\ prefixedRoutes[i].handler = routes[i].handler

C4_Witness ==
  /\ pc = "done"
  /\ Len(routes) = 2
  /\ routes[1].method # routes[2].method
  /\ routes[1].method = Undefined
  /\ prefixedRoutes[1].url # routes[1].url
  /\ prefixedRoutes[1].method = Undefined
  /\ prefixedRoutes[2].handler = routes[2].handler

\* the two characters where the normalized prefix cp meets the url are slashes
slashAtBoundary(url, cp) ==
  Len(url) > Len(cp) /\ url[Len(cp)] = "/" /\ url[Len(cp) + 1] = "/"

\* C20: for every prefix with a non-whitespace character, the normalized
\* prefix that addRoutesPrefix concatenates does not end in "/" unless it is
\* exactly "/", and no rewritten url has "//" where the prefix meets the url.
C20_NormalizedPrefixHasNoTrailingSlash ==
  (pc = "done" /\ hasNonBlank(prefix))
    => /\ endsWith(cleanPrefix(prefix), "/") => cleanPrefix(prefix) = <<"/">>
       /\ \A i \in 1..Len(prefixedRoutes) :
            ~slashAtBoundary(prefixedRoutes[i].url, cleanPrefix(prefix))

(***************************************************************************)
(* joinPaths, src/src/util.ts 16-21                                        *)
(***************************************************************************)
\* paths.filter(Boolean)
filterBoolean(paths) == SelectSeq(paths, LAMBDA x : x # <<>>)

RECURSIVE join(_, _)
join(paths, sep) ==
  IF paths = <<>> THEN <<>>
  ELSE IF Len(paths) = 1 THEN paths[1]
  ELSE paths[1] \o sep \o join(Tail(paths), sep)

\* replace(/\/+/g, '/')
RECURSIVE collapseSlashes(_)
collapseSlashes(s) ==
  IF Len(s) < 2 THEN s
  ELSE IF s[1] = "/" /\ s[2] = "/" THEN collapseSlashes(Tail(s))
  ELSE <<s[1]>> \o collapseSlashes(Tail(s))

\* replace(/\/$/, '')
stripTrailingSlash(s) == IF endsWith(s, "/") THEN sliceLast(s) ELSE s

joinPathsKeepSlashRuns(paths) ==
  LET joined == stripTrailingSlash(join(filterBoolean(paths), <<"/">>))
  IN  IF joined = <<>> THEN <<"/">> ELSE joined

joinPaths(paths) ==
  LET joined == stripTrailingSlash(collapseSlashes(join(filterBoolean(paths), <<"/">>)))
  IN  IF joined = <<>> THEN <<"/">> ELSE joined

(***************************************************************************)
(* Inputs of joinPaths: at most MaxSegments segments, each a string of at  *)
(* most MaxSegmentLen slashes and letters, the empty string included.      *)
(* joinPaths is then called once more with the string it returned.         *)
(***************************************************************************)
PathSegments == StringsUpTo({"/", "a"}, MaxSegmentLen)

SegmentLists == UNION {[1..n -> PathSegments] : n \in 0..MaxSegments}

InitJoinPaths ==
  /\ pc = "init"
  /\ segments \in SegmentLists
  /\ joinedPath = <<>>
  /\ rejoinedPath = <<>>
  /\ prefixIdle
  /\ routesIdle
  /\ middlewareIdle
  /\ bootstrapIdle
  /\ routerIdle
  /\ appIdle
  /\ serverIdle

CallJoinPaths ==
  /\ pc = "init"
  /\ joinedPath' = joinPaths(segments)
  /\ pc' = "done"
  /\ UNCHANGED <<segments, rejoinedPath, prefixVars, routesVars, middlewareVars,
                 bootstrapVars, routerVars, appVars, serverVars>>

CallJoinPathsOnResult ==
  /\ pc = "done"
  /\ rejoinedPath' = joinPaths(<<joinedPath>>)
  /\ pc' = "rejoined"
  /\ UNCHANGED <<segments, joinedPath, prefixVars, routesVars, middlewareVars,
                 bootstrapVars, routerVars, appVars, serverVars>>

NextJoinPaths == CallJoinPaths \/ CallJoinPathsOnResult

SpecJoinPaths == InitJoinPaths /\ [][NextJoinPaths]_vars

doubleSlash(s) == \E i \in 1..(Len(s) - 1) : s[i] = "/" /\ s[i + 1] = "/"

\* C25: for every finite sequence of segments joinPaths returns a non-empty
\* string without two consecutive slashes that does not end in "/" unless it
\* is exactly "/"; it returns "/" when every segment is empty; and joinPaths
\* of its own result is that result.
C25_JoinPathsIsNormalForm ==
  /\ pc \in {"done", "rejoined"}
       => /\ joinedPath # <<>>
          /\ ~doubleSlash(joinedPath)
          /\ (endsWith(joinedPath, "/") => joinedPath = <<"/">>)
          /\ ((\A i \in 1..Len(segments) : segments[i] = <<>>) => joinedPath = <<"/">>)
  /\ pc = "rejoined" => rejoinedPath = joinedPath

C25_Witness ==
  /\ pc = "rejoined"
  /\ segments = << <<>>, <<"a", "/">>, <<"/", "a">> >>
  /\ joinedPath = <<"a", "/", "a">>
  /\ rejoinedPath = joinedPath

(***************************************************************************)
(* parseRoutes, src/src/routes.ts 14-86                                    *)
(***************************************************************************)
HTTP_METHODS == <<"GET", "POST", "PUT", "PATCH", "DELETE">>

ALL_HTTP_METHOD == "ALL"

\* the segment keys of the route trees and their characters
Segments == {"/a", "b"}

charsOf(key) ==
  CASE key = "/a" -> <<"/", "a">>
    [] key = "b" -> <<"b">>
    [] key = "a" -> <<"a">>
    [] key = "/" -> <<"/">>
    [] key = "" -> <<>>
    [] key = "0" -> <<"0">>

isRouteHandlerConfig(config) ==
  isObject(config) /\ has(config, "handler") /\ isFunction(get(config, "handler"))

isRouteConfigByKey(config) ==
  /\ isObject(config)
  /\ \/ has(config, "GET")
     \/ has(config, "POST")
     \/ has(config, "PUT")
     \/ has(config, "PATCH")
     \/ has(config, "DELETE")
     \/ has(config, "children")

isRouteConfig(config) ==
  /\ isObject(config)
  /\ \/ get(config, "GET") # Undef
     \/ get(config, "POST") # Undef
     \/ get(config, "PUT") # Undef
     \/ get(config, "PATCH") # Undef
     \/ get(config, "DELETE") # Undef
     \/ get(config, "children") # Undef

ParsedRoute(route, method, handler, options) ==
  [route |-> route, method |-> method, handler |-> handler, options |-> options]

methodTupleAlwaysBare(fullPath, method, methodConfig) ==
  ParsedRoute(fullPath, method, methodConfig, Undef)

\* the body of the loop over HTTP_METHODS for a truthy methodConfig
methodTuple(fullPath, method, methodConfig) ==
  IF isRouteHandlerConfig(methodConfig)
  THEN ParsedRoute(fullPath, method, get(methodConfig, "handler"),
                   get(methodConfig, "options"))
  ELSE ParsedRoute(fullPath, method, methodConfig, Undef)

RECURSIVE methodTuplesFrom(_, _, _, _)
methodTuplesFrom(config, fullPath, methods, k) ==
  IF k > Len(methods) THEN <<>>
  ELSE (IF truthy(get(config, methods[k]))
        THEN <<methodTuple(fullPath, methods[k], get(config, methods[k]))>>
        ELSE <<>>)
       \o methodTuplesFrom(config, fullPath, methods, k + 1)

\* the method keys of config in the insertion order of the object
insertedMethods(config) ==
  LET keys == [i \in 1..Len(config.props) |-> config.props[i].key]
  IN  SelectSeq(keys, LAMBDA x : \E k \in 1..Len(HTTP_METHODS) : HTTP_METHODS[k] = x)

methodTuplesInsertionOrder(config, fullPath) ==
  methodTuplesFrom(config, fullPath, insertedMethods(config), 1)

\* for (const method of HTTP_METHODS) { ... }
methodTuples(config, fullPath) ==
  methodTuplesFrom(config, fullPath, HTTP_METHODS, 1)

allTupleAsGet(fullPath, config) ==
  ParsedRoute(fullPath, "GET", config, Undef)

\* the else branch: a node that is no RouteConfig
allTuple(fullPath, config) ==
  ParsedRoute(fullPath, ALL_HTTP_METHOD, config, Undef)

RECURSIVE parseRoutes(_, _)

parseEntryChildrenFirst(path, config, basePath) ==
  LET fullPath == joinPaths(<<basePath, charsOf(path)>>)
  IN  IF isRouteConfig(config)
      THEN (IF truthy(get(config, "children"))
            THEN parseRoutes(get(config, "children"), fullPath)
            ELSE <<>>)
           \o methodTuples(config, fullPath)
      ELSE <<allTuple(fullPath, config)>>

parseEntryFromRoot(path, config, basePath) ==
  LET fullPath == joinPaths(<<charsOf(path)>>)
  IN  IF isRouteConfig(config)
      THEN methodTuples(config, fullPath)
           \o (IF truthy(get(config, "children"))
               THEN parseRoutes(get(config, "children"), fullPath)
               ELSE <<>>)
      ELSE <<allTuple(fullPath, config)>>

\* the body of the loop over Object.entries(routes)
parseEntry(path, config, basePath) ==
  LET fullPath == joinPaths(<<basePath, charsOf(path)>>)
  IN  IF isRouteConfig(config)
      THEN methodTuples(config, fullPath)
           \o (IF truthy(get(config, "children"))
               THEN parseRoutes(get(config, "children"), fullPath)
               ELSE <<>>)
      ELSE <<allTuple(fullPath, config)>>

RECURSIVE parseEntriesFrom(_, _, _)
parseEntriesFrom(rts, basePath, i) ==
  IF i > Len(rts.props) THEN <<>>
  ELSE parseEntry(rts.props[i].key, rts.props[i].val, basePath)
       \o parseEntriesFrom(rts, basePath, i + 1)

parseRoutes(rts, basePath) == parseEntriesFrom(rts, basePath, 1)

(***************************************************************************)
(* Inputs of the parser, two families of route trees.                      *)
(*                                                                         *)
(* NestedTrees: every tree of weight at most MaxWeight, where a bare       *)
(* handler node, a method key and a children key weigh one each; the       *)
(* method keys are drawn from NestedMethodKeys.                            *)
(* SingleNodeTrees: one method-map node carrying any of the five method    *)
(* keys.                                                                   *)
(*                                                                         *)
(* Segment keys within one object are distinct, a method value is a bare   *)
(* handler or a {handler, options} pair, and the properties of an object   *)
(* come in every insertion order.                                          *)
(***************************************************************************)
MethodKeys == {HTTP_METHODS[k] : k \in 1..Len(HTTP_METHODS)}

NestedMethodKeys == {"GET", "POST"}

Prop(k, v) == [key |-> k, val |-> v]

\* RouteHandler = EventHandler | RouteHandlerConfig
MethodValues(at) ==
  {Fn(at),
   Obj(at, <<Prop("handler", Fn(at \o <<"handler">>)),
             Prop("options", Obj(at \o <<"options">>, <<>>))>>)}

RECURSIVE TreeProps(_, _, _)
RECURSIVE MapProps(_, _, _)
RECURSIVE Nodes(_, _)

\* the property lists of weight w of a Routes object at position `at`
TreeProps(w, at, segs) ==
  IF w = 0 THEN {<<>>}
  ELSE UNION {UNION {{<<Prop(seg, n)>> \o rest :
                        n \in Nodes(a, at \o <<seg>>),
                        rest \in TreeProps(w - a, at, segs \ {seg})} :
                     a \in 1..w} :
              seg \in segs}

\* the property lists of weight w of a RouteConfig object at position `at`
MapProps(w, at, keys) ==
  IF w = 0 THEN {<<>>}
  ELSE UNION {IF k = "children"
              THEN UNION {{<<Prop(k, Obj(at \o <<k>>, t))>> \o rest :
                             t \in TreeProps(c, at \o <<k>>, Segments),
                             rest \in MapProps(w - 1 - c, at, keys \ {k})} :
                          c \in 0..(w - 1)}
              ELSE {<<Prop(k, v)>> \o rest :
                      v \in MethodValues(at \o <<k>>),
                      rest \in MapProps(w - 1, at, keys \ {k})} :
              k \in keys}

\* RouteHandler | RouteConfig
Nodes(w, at) ==
  (IF w = 1 THEN {Fn(at)} ELSE {})
    \cup {Obj(at, ps) : ps \in MapProps(w, at, NestedMethodKeys \cup {"children"})}

NestedTrees ==
  {Obj(<<>>, ps) : ps \in UNION {TreeProps(w, <<>>, Segments) : w \in 0..MaxWeight}}

\* the method-map nodes with n of the five method keys, in any insertion order
MethodMaps(n, at) ==
  {Obj(at, [i \in 1..n |-> Prop(ks[i], IF pair[i]
                                        THEN Obj(at \o <<ks[i]>>,
                                                 <<Prop("handler", Fn(at \o <<ks[i], "handler">>)),
                                                   Prop("options", Obj(at \o <<ks[i], "options">>, <<>>))>>)
                                        ELSE Fn(at \o <<ks[i]>>))]) :
     ks \in {f \in [1..n -> MethodKeys] : \A i, j \in 1..n : i # j => f[i] # f[j]},
     pair \in [1..n -> BOOLEAN]}

SingleNodeTrees ==
  {Obj(<<>>, <<Prop("/a", node)>>) :
     node \in UNION {MethodMaps(n, <<"/a">>) : n \in 1..Len(HTTP_METHODS)}}

Trees == NestedTrees \cup SingleNodeTrees

InitRoutes ==
  /\ pc = "init"
  /\ tree \in Trees
  /\ parsedRoutes = <<>>
  /\ prefixIdle
  /\ middlewareIdle
  /\ bootstrapIdle
  /\ routerIdle
  /\ appIdle
  /\ serverIdle
  /\ joinIdle

CallParseRoutes ==
  /\ pc = "init"
  /\ parsedRoutes' = parseRoutes(tree, <<>>)
  /\ pc' = "done"
  /\ UNCHANGED <<tree, prefixVars, middlewareVars, bootstrapVars, routerVars, appVars,
                 serverVars, joinVars>>

NextRoutes == CallParseRoutes

SpecRoutes == InitRoutes /\ [][NextRoutes]_vars

(***************************************************************************)
(* The nodes of a tree and where their tuples are.  The identity of every  *)
(* handler is the key path of its place in the tree, so the tuples that    *)
(* come from a place are those whose handler identity extends its path.    *)
(***************************************************************************)
isPrefixOf(p, q) == Len(p) <= Len(q) /\ SubSeq(q, 1, Len(p)) = p

tuplesUnder(at) ==
  {i \in 1..Len(parsedRoutes) : isPrefixOf(at, parsedRoutes[i].handler.id)}

hasChildTree(v) == v.kind = "object" /\ get(v, "children").kind = "object"

\* every node at any depth, with the segment keys that lead to it
RECURSIVE nodesOf(_, _)
nodesOf(rts, segs) ==
  UNION {LET n == rts.props[i].val
             path == segs \o <<rts.props[i].key>>
         IN  {[val |-> n, path |-> path]}
               \cup (IF hasChildTree(n) THEN nodesOf(get(n, "children"), path) ELSE {}) :
         i \in 1..Len(rts.props)}

\* the root object and every children object
treesOf(rts) ==
  {rts} \cup {get(n.val, "children") : n \in {m \in nodesOf(rts, <<>>) : hasChildTree(m.val)}}

\* the path-join of all segment keys down to a node
fullPathOf(path) == joinPaths([i \in 1..Len(path) |-> charsOf(path[i])])

ClaimedOrder == <<"GET", "POST", "PUT", "PATCH", "DELETE">>

ClaimedMethods == {ClaimedOrder[k] : k \in 1..Len(ClaimedOrder)}

rank(m) == CHOOSE k \in 1..Len(ClaimedOrder) : ClaimedOrder[k] = m

methodMapShape(v) ==
  v.kind = "object"
    /\ \E i \in 1..Len(v.props) : v.props[i].key \in ClaimedMethods \cup {"children"}

methodKeysOf(v) == {v.props[i].key : i \in 1..Len(v.props)} \cap ClaimedMethods

ownTuples(v) == UNION {tuplesUnder(v.id \o <<k>>) : k \in methodKeysOf(v)}

\* C5: the tuples of a method-map node's own methods come in the order GET,
\* POST, PUT, PATCH, DELETE, whatever the insertion order of its method keys.
C5_OwnTuplesInFixedMethodOrder ==
  pc = "done"
    => \A n \in nodesOf(tree, <<>>) :
         methodMapShape(n.val)
           => \A k1, k2 \in methodKeysOf(n.val) :
                rank(k1) < rank(k2)
                  => /\ tuplesUnder(n.val.id \o <<k1>>) # {}
                     /\ tuplesUnder(n.val.id \o <<k2>>) # {}
                     /\ \A i \in tuplesUnder(n.val.id \o <<k1>>) :
                          \A j \in tuplesUnder(n.val.id \o <<k2>>) : i < j

C5_Witness ==
  /\ pc = "done"
  /\ \E n \in nodesOf(tree, <<>>) :
       /\ Len(n.val.props) >= 3
       /\ n.val.props[1].key = "DELETE"
       /\ n.val.props[2].key = "PATCH"
       /\ n.val.props[3].key = "PUT"
       /\ Len(parsedRoutes) = 3
       /\ parsedRoutes[1].method = "PUT"
       /\ parsedRoutes[2].method = "PATCH"
       /\ parsedRoutes[3].method = "DELETE"

\* C6: for a method-map node with a children sub-tree, the tuples of its own
\* methods come first and right after them the tuples of the children
\* sub-tree, which are that sub-tree parsed with the node's full path as base;
\* no tuple of a later sibling comes before a tuple of an earlier sibling or
\* of its descendants.
C6_OwnThenChildrenThenSiblings ==
  pc = "done"
    => /\ \A n \in nodesOf(tree, <<>>) :
            hasChildTree(n.val)
              => LET own == ownTuples(n.val)
                     desc == tuplesUnder(n.val.id \o <<"children">>)
                     sub == parseRoutes(get(n.val, "children"), fullPathOf(n.path))
                 IN  /\ \A i \in own : \A j \in desc : i < j
                     /\ \A i, j \in own \cup desc :
                          \A l \in i..j : l \in own \cup desc
                     /\ Cardinality(desc) = Len(sub)
                     /\ \A j \in desc :
                          parsedRoutes[j] = sub[j - Cardinality({l \in 1..j : l \notin desc})]
       /\ \A t \in treesOf(tree) :
            \A a, b \in 1..Len(t.props) :
              a < b => \A i \in tuplesUnder(t.props[a].val.id) :
                         \A j \in tuplesUnder(t.props[b].val.id) : i < j

C6_Witness ==
  /\ pc = "done"
  /\ \E n \in nodesOf(tree, <<>>) :
       /\ hasChildTree(n.val)
       /\ n.val.props[1].key = "children"
       /\ ownTuples(n.val) = {1}
       /\ tuplesUnder(n.val.id \o <<"children">>) = {2}
       /\ parsedRoutes[2].route = <<"/", "a", "/", "b">>

\* C7: a node that is no method map gives exactly one tuple: its full path,
\* method "ALL", the node value itself as handler, no options.
C7_BareNodeGivesOneAllTuple ==
  pc = "done"
    => \A n \in nodesOf(tree, <<>>) :
         ~methodMapShape(n.val)
           => /\ Cardinality(tuplesUnder(n.val.id)) = 1
              /\ \A i \in tuplesUnder(n.val.id) :
                   parsedRoutes[i] =
                     [route |-> fullPathOf(n.path), method |-> "ALL",
                      handler |-> n.val, options |-> Undef]

C7_Witness ==
  /\ pc = "done"
  /\ \E n \in nodesOf(tree, <<>>) :
       /\ ~methodMapShape(n.val)
       /\ Len(n.path) = 2
       /\ \E i \in 1..Len(parsedRoutes) :
            /\ parsedRoutes[i].handler = n.val
            /\ parsedRoutes[i].method = "ALL"
            /\ parsedRoutes[i].route = <<"/", "a", "/", "b">>

isPair(v) ==
  v.kind = "object" /\ has(v, "handler") /\ get(v, "handler").kind = "function"

\* C8: every method key of a method-map node whose value is a {handler,
\* options} pair or a bare handler gives exactly one tuple, with the node's
\* full path and that method: the pair's handler and options for a pair, the
\* handler and no options for a bare handler.
C8_OneTuplePerMethodKey ==
  pc = "done"
    => \A n \in nodesOf(tree, <<>>) :
         methodMapShape(n.val)
           => \A k \in methodKeysOf(n.val) :
                LET v == get(n.val, k)
                    ts == tuplesUnder(n.val.id \o <<k>>)
                IN  (isPair(v) \/ v.kind = "function")
                      => /\ Cardinality(ts) = 1
                         /\ \A i \in ts :
                              /\ parsedRoutes[i].route = fullPathOf(n.path)
                              /\ parsedRoutes[i].method = k
                              /\ isPair(v)
                                   => /\ parsedRoutes[i].handler = get(v, "handler")
                                      /\ parsedRoutes[i].options = get(v, "options")
                              /\ v.kind = "function"
                                   => /\ parsedRoutes[i].handler = v
                                      /\ parsedRoutes[i].options = Undef

C8_Witness ==
  /\ pc = "done"
  /\ \E n \in nodesOf(tree, <<>>) :
       /\ isPair(get(n.val, "POST"))
       /\ get(n.val, "GET").kind = "function"
       /\ Len(parsedRoutes) = 2
       /\ parsedRoutes[1].handler = get(n.val, "GET")
       /\ parsedRoutes[1].options = Undef
       /\ parsedRoutes[2].handler = get(get(n.val, "POST"), "handler")
       /\ parsedRoutes[2].options = get(get(n.val, "POST"), "options")
       /\ parsedRoutes[2].options # Undef

(***************************************************************************)
(* Two more families of route trees for the parser.                        *)
(*                                                                         *)
(* ChainTrees: one node per level down to depth MaxDepth, the segment key  *)
(* of every level drawn from SegmentKeys (with and without leading slash,  *)
(* the empty string and "/"); the inner nodes are method maps with a GET   *)
(* handler and a children object, the last node is a bare handler.         *)
(* ShapeTrees: one node, a function or an object with at most two of the   *)
(* keys of ShapeKeys, each with a value that is undefined, null, a         *)
(* function or an empty object.                                            *)
(***************************************************************************)
SegmentKeys == {"", "/", "a", "/a"}

RECURSIVE ChainProps(_, _)
ChainProps(d, at) ==
  UNION {IF d = 1
         THEN {<<Prop(k, Fn(at \o <<k>>))>>}
         ELSE {<<Prop(k, Obj(at \o <<k>>,
                            <<Prop("GET", Fn(at \o <<k, "GET">>)),
                              Prop("children", Obj(at \o <<k, "children">>, ps))>>))>> :
                 ps \in ChainProps(d - 1, at \o <<k, "children">>)} :
         k \in SegmentKeys}

ChainTrees == {Obj(<<>>, ps) : ps \in UNION {ChainProps(d, <<>>) : d \in 1..MaxDepth}}

ShapeKeys == {"GET", "DELETE", "children", "handler"}

ShapeKinds == {"undefined", "null", "function", "object"}

ShapeValue(kind, at) ==
  CASE kind = "undefined" -> Undef
    [] kind = "null" -> Null
    [] kind = "function" -> Fn(at)
    [] kind = "object" -> Obj(at, <<>>)

ShapeNodes(at) ==
  {Fn(at)}
    \cup UNION {{Obj(at, [i \in 1..n |-> Prop(ks[i], ShapeValue(c[i], at \o <<ks[i]>>))]) :
                   ks \in {f \in [1..n -> ShapeKeys] : \A i, j \in 1..n : i # j => f[i] # f[j]},
                   c \in [1..n -> ShapeKinds]} :
                n \in 0..2}

ShapeTrees == {Obj(<<>>, <<Prop("/a", node)>>) : node \in ShapeNodes(<<"/a">>)}

InitNodeShapes ==
  /\ pc = "init"
  /\ tree \in ChainTrees \cup ShapeTrees
  /\ parsedRoutes = <<>>
  /\ prefixIdle
  /\ middlewareIdle
  /\ bootstrapIdle
  /\ routerIdle
  /\ appIdle
  /\ serverIdle
  /\ joinIdle

SpecNodeShapes == InitNodeShapes /\ [][NextRoutes]_vars

\* the tuples of a node itself, without those of its children
nodeTuples(v) == tuplesUnder(v.id) \ tuplesUnder(v.id \o <<"children">>)

\* C17 as stated: the route of every tuple of a node, at any depth and for
\* segment keys with or without leading slash, "" and "/" included, is
\* joinPaths applied once to all segment keys from the root down to the node.
C17_RouteIsJoinOfAllSegments ==
  pc = "done"
    => \A n \in nodesOf(tree, <<>>) :
         \A i \in nodeTuples(n.val) :
           parsedRoutes[i].route = fullPathOf(n.path)

noEmptySegment(path) == \A k \in 1..Len(path) : path[k] # ""

\* C17 amended: the same for the nodes none of whose segment keys, from the
\* root down, is the empty string.
C17_RouteIsJoinOfNonEmptySegments ==
  pc = "done"
    => \A n \in nodesOf(tree, <<>>) :
         noEmptySegment(n.path)
           => \A i \in nodeTuples(n.val) :
                parsedRoutes[i].route = fullPathOf(n.path)

C17_Witness ==
  /\ pc = "done"
  /\ \E n \in nodesOf(tree, <<>>) :
       /\ n.path = <<"/", "a", "/a">>
       /\ \E i \in nodeTuples(n.val) :
            parsedRoutes[i].route = <<"/", "a", "/", "a">>

\* the node is treated as a bare any-method handler
classifiedBare(v) ==
  \E i \in 1..Len(parsedRoutes) :
    parsedRoutes[i].handler = v /\ parsedRoutes[i].method = "ALL"

\* C18 as stated: a node is classified as a method map exactly when it is an
\* object with at least one of the keys GET, POST, PUT, PATCH, DELETE,
\* children, whatever the value of the key; every other node is treated as a
\* bare any-method handler.
C18_MethodMapIffKeyPresent ==
  pc = "done"
    => \A n \in nodesOf(tree, <<>>) :
         methodMapShape(n.val) <=> ~classifiedBare(n.val)

definedKeyShape(v) ==
  v.kind = "object"
    /\ \E i \in 1..Len(v.props) :
         v.props[i].key \in ClaimedMethods \cup {"children"} /\ v.props[i].val # Undef

\* C18 amended: a node is classified as a method map exactly when it is an
\* object with at least one of those keys whose value is not undefined.
C18_MethodMapIffKeyDefined ==
  pc = "done"
    => \A n \in nodesOf(tree, <<>>) :
         definedKeyShape(n.val) <=> ~classifiedBare(n.val)

C18_Witness ==
  /\ pc = "done"
  /\ \E n \in nodesOf(tree, <<>>) :
       /\ has(n.val, "GET")
       /\ get(n.val, "GET") = Undef
       /\ parsedRoutes = <<ParsedRoute(<<"/", "a">>, "ALL", n.val, Undef)>>

\* the declared type RouteHandler: a callable or {handler, options?} with a
\* callable handler
declaredRouteHandler(v) ==
  \/ isFunction(v)
  \/ /\ v.kind = "object"
     /\ \A i \in 1..Len(v.props) : v.props[i].key \in {"handler", "options"}
     /\ isFunction(get(v, "handler"))

\* the declared types RouteConfig, with at least one of its keys defined, and
\* Routes
RECURSIVE declaredRoutes(_)
declaredRouteConfig(v) ==
  /\ v.kind = "object"
  /\ \E i \in 1..Len(v.props) : v.props[i].val # Undef
  /\ \A i \in 1..Len(v.props) :
       \/ /\ v.props[i].key \in ClaimedMethods
          /\ (v.props[i].val = Undef \/ declaredRouteHandler(v.props[i].val))
       \/ /\ v.props[i].key = "children"
          /\ (v.props[i].val = Undef \/ declaredRoutes(v.props[i].val))

declaredRoutes(v) ==
  /\ v.kind = "object"
  /\ \A i \in 1..Len(v.props) :
       declaredRouteHandler(v.props[i].val) \/ declaredRouteConfig(v.props[i].val)

\* a middleware entry of the declared types or of the {middleware} shape
declaredMiddleware(v) ==
  \/ isFunction(v)
  \/ /\ v.kind = "object"
     /\ isFunction(get(v, "handler")) \/ isFunction(get(v, "middleware"))

\* the handler position of a middleware tuple: after the route, if any
handlerOf(t) == IF t[1].kind = "string" THEN t[2] ELSE t[1]

\* C28: for every input of the declared types, a path-level
\* {handler, options} object in a route tree and a middleware entry of the
\* {handler} or the {middleware} shape included, every tuple of parseRoutes
\* and of parseMiddlewares has a callable in its handler position.
C28_EveryTupleHandlerIsCallable ==
  pc = "done"
    => /\ (tree # <<>> /\ declaredRoutes(tree))
            => \A i \in 1..Len(parsedRoutes) : isFunction(parsedRoutes[i].handler)
       /\ (\A i \in 1..Len(middlewares) : declaredMiddleware(middlewares[i]))
            => \A i \in 1..Len(parsedMiddlewares) :
                 isFunction(handlerOf(parsedMiddlewares[i]))

(***************************************************************************)
(* parseMiddlewares, src/src/utils.ts 99-149                               *)
(***************************************************************************)
isMiddlewareConfig(config) ==
  isObject(config) /\ has(config, "middleware") /\ isFunction(get(config, "middleware"))

\* the body of the loop over the entries
parseMiddleware(config) ==
  IF isMiddlewareConfig(config)
  THEN LET route == get(config, "route")
           handler == get(config, "handler")
           options == get(config, "options")
       IN  IF truthy(route) /\ truthy(options) THEN <<route, handler, options>>
           ELSE IF truthy(route) THEN <<route, handler>>
           ELSE IF truthy(options) THEN <<handler, options>>
           ELSE <<handler>>
  ELSE <<config>>

parseMiddlewares(mws) == [i \in 1..Len(mws) |-> parseMiddleware(mws[i])]

(***************************************************************************)
(* Inputs of the normalizer: arrays of at most MaxEntries entries, each a  *)
(* bare function or a plain object with any of the fields route (empty or  *)
(* not), handler, options and middleware.                                  *)
(***************************************************************************)
RouteFields == {<<>>, <<Prop("route", Str(<<>>))>>, <<Prop("route", Str(<<"/", "x">>))>>}

HandlerFields(at) == {<<>>, <<Prop("handler", Fn(at \o <<"handler">>))>>}

OptionsFields(at) == {<<>>, <<Prop("options", Obj(at \o <<"options">>, <<>>))>>}

MiddlewareFields(at) == {<<>>, <<Prop("middleware", Fn(at \o <<"middleware">>))>>}

MiddlewareEntries(at) ==
  {Fn(at)}
    \cup {Obj(at, r \o h \o o \o m) :
            r \in RouteFields, h \in HandlerFields(at),
            o \in OptionsFields(at), m \in MiddlewareFields(at)}

MiddlewareArrays ==
  UNION {{mws \in [1..n -> UNION {MiddlewareEntries(<<ToString(i)>>) : i \in 1..n}] :
            \A i \in 1..n : mws[i] \in MiddlewareEntries(<<ToString(i)>>)} :
         n \in 0..MaxEntries}

InitMiddlewares ==
  /\ pc = "init"
  /\ middlewares \in MiddlewareArrays
  /\ parsedMiddlewares = <<>>
  /\ prefixIdle
  /\ routesIdle
  /\ bootstrapIdle
  /\ routerIdle
  /\ appIdle
  /\ serverIdle
  /\ joinIdle

CallParseMiddlewares ==
  /\ pc = "init"
  /\ parsedMiddlewares' = parseMiddlewares(middlewares)
  /\ pc' = "done"
  /\ UNCHANGED <<middlewares, prefixVars, routesVars, bootstrapVars, routerVars, appVars,
                 serverVars, joinVars>>

NextMiddlewares == CallParseMiddlewares

SpecMiddlewares == InitMiddlewares /\ [][NextMiddlewares]_vars

\* the tuple C9 gives for a config object
claimedTuple(config) ==
  LET route == get(config, "route")
      handler == get(config, "handler")
      options == get(config, "options")
      hasRoute == has(config, "route") /\ route # Str(<<>>)
      hasOptions == has(config, "options")
  IN  IF hasRoute /\ hasOptions THEN <<route, handler, options>>
      ELSE IF hasRoute THEN <<route, handler>>
      ELSE IF hasOptions THEN <<handler, options>>
      ELSE <<handler>>

\* C9: a config object {route?, handler, options?} with a callable handler
\* is normalized to (route, handler, options), (route, handler),
\* (handler, options) or (handler), by the fields that are present.
C9_ConfigObjectTupleShape ==
  pc = "done"
    => \A i \in 1..Len(middlewares) :
         (/\ middlewares[i].kind = "object"
          /\ has(middlewares[i], "handler")
          /\ get(middlewares[i], "handler").kind = "function")
           => parsedMiddlewares[i] = claimedTuple(middlewares[i])

\* what C19 calls a config object: a plain object with a callable handler
claimedConfig(entry) ==
  entry.kind = "object" /\ get(entry, "handler").kind = "function"

isAfterTreatAbsentAsAfter(m) == m.isAfter # "false"

isAfter(m) == m.isAfter = "true"

\* middlewares.filter((m) => !m.isAfter)
beforeMiddlewares(mws) == SelectSeq(mws, LAMBDA m : ~isAfter(m))

\* middlewares.filter((m) => m.isAfter)
afterMiddlewares(mws) == SelectSeq(mws, LAMBDA m : isAfter(m))

\* app.use(defineEventHandler(middlewareItem.middleware))
useMiddleware(m) == [what |-> "middleware", handler |-> m.middleware]

\* app.use(router)
useRouter == [what |-> "router", handler |-> Undef]

useAll(mws) == [i \in 1..Len(mws) |-> useMiddleware(mws[i])]

\* the app.use calls of bootstrapApp, in the order they are made
bootstrapApp(mws) ==
  useAll(beforeMiddlewares(mws)) \o <<useRouter>> \o useAll(afterMiddlewares(mws))

(***************************************************************************)
(* Inputs of the bootstrap: arrays of at most MaxMockMiddlewares entries   *)
(* {name?, isAfter?, middleware}, each with a handler of its own.          *)
(***************************************************************************)
IsAfterValues == {"true", "false", Undefined}

NameValues == {"logger", Undefined}

MockMiddlewareArrays ==
  UNION {{[i \in 1..n |-> [name |-> nm[i], isAfter |-> af[i],
                            middleware |-> Fn(<<ToString(i), "middleware">>)]] :
            nm \in [1..n -> NameValues], af \in [1..n -> IsAfterValues]} :
         n \in 0..MaxMockMiddlewares}

InitBootstrap ==
  /\ pc = "init"
  /\ mockMiddlewares \in MockMiddlewareArrays
  /\ appUse = <<>>
  /\ prefixIdle
  /\ routesIdle
  /\ middlewareIdle
  /\ routerIdle
  /\ appIdle
  /\ serverIdle
  /\ joinIdle

CallBootstrapApp ==
  /\ pc = "init"
  /\ appUse' = appUse \o bootstrapApp(mockMiddlewares)
  /\ pc' = "done"
  /\ UNCHANGED <<mockMiddlewares, prefixVars, routesVars, middlewareVars, routerVars,
                 appVars, serverVars, joinVars>>

NextBootstrap == CallBootstrapApp

SpecBootstrap == InitBootstrap /\ [][NextBootstrap]_vars

\* the positions in appUse where the handler of entry i is registered
usesOf(i) ==
  {u \in 1..Len(appUse) :
     appUse[u].what = "middleware" /\ appUse[u].handler = mockMiddlewares[i].middleware}

routerUses == {u \in 1..Len(appUse) : appUse[u].what = "router"}

afterEntry(i) == mockMiddlewares[i].isAfter = "true"

\* C10: bootstrapApp registers every entry exactly once and the router
\* exactly once: the entries with isAfter false or absent first, in input
\* order, then the router, then the entries with isAfter true, in input order.
C10_BeforeRouterAfterOrder ==
  pc = "done"
    => /\ Len(appUse) = Len(mockMiddlewares) + 1
       /\ Cardinality(routerUses) = 1
       /\ \A i \in 1..Len(mockMiddlewares) :
            /\ Cardinality(usesOf(i)) = 1
            /\ \A u \in usesOf(i) : \A r \in routerUses :
                 IF afterEntry(i) THEN r < u ELSE u < r
       /\ \A i, j \in 1..Len(mockMiddlewares) :
            (i < j /\ afterEntry(i) = afterEntry(j))
              => \A u \in usesOf(i) : \A w \in usesOf(j) : u < w
       /\ \A i, j \in 1..Len(mockMiddlewares) :
            (~afterEntry(i) /\ afterEntry(j))
              => \A u \in usesOf(i) : \A w \in usesOf(j) : u < w

C10_Witness ==
  /\ pc = "done"
  /\ Len(mockMiddlewares) = 3
  /\ mockMiddlewares[1].isAfter = "true"
  /\ mockMiddlewares[2].isAfter = Undefined
  /\ mockMiddlewares[3].isAfter = "false"
  /\ appUse = <<useMiddleware(mockMiddlewares[2]), useMiddleware(mockMiddlewares[3]),
                useRouter, useMiddleware(mockMiddlewares[1])>>

(***************************************************************************)
(* createH3Router and addRoutes, src/unnamed/part_003 46-120.  A router is *)
(* known by the calls made on it, in order.                                *)
(***************************************************************************)
BASE_PATH == <<"/">>

\* the method names the router has a function for
RouterMethods == {"get", "post", "put", "patch", "delete"}

\* isEmpty of ./utils: an absent, null or empty prefix
isEmpty(value) ==
  value.kind \in {"undefined", "null"} \/ (value.kind = "string" /\ value.id = <<>>)

hasPrefix(p) == ~isEmpty(p) /\ p # Str(BASE_PATH)

\* router.add(path, defineEventHandler(handler), method)
RouterAdd(path, handler, method) ==
  [fn |-> "add", path |-> path, handler |-> handler, method |-> method, base |-> <<>>]

\* router.use(path, useBase(base, nestedRouter.handler))
RouterUse(path, base) ==
  [fn |-> "use", path |-> path, handler |-> 0, method |-> Undefined, base |-> base]

\* the destructuring default: method = 'get'
methodOrGet(route) == IF route.method = Undefined THEN "get" ELSE route.method

\* !router[method]
unsupported(route) == methodOrGet(route) \notin RouterMethods

\* the router.add calls of addRoutes
addRoutes(rs) ==
  LET kept == SelectSeq(rs, LAMBDA r : ~unsupported(r))
  IN  [i \in 1..Len(kept) |-> RouterAdd(kept[i].url, kept[i].handler, methodOrGet(kept[i]))]

\* the console.warn calls of addRoutes
addRoutesWarnings(rs) ==
  LET skipped == SelectSeq(rs, LAMBDA r : unsupported(r))
  IN  [i \in 1..Len(skipped) |-> methodOrGet(skipped[i])]

\* routes.filter((route) => route.url === BASE_PATH): find returns its first
rootRoutes(rs) == SelectSeq(rs, LAMBDA r : r.url = BASE_PATH)

\* routes.filter((route) => route.url !== BASE_PATH)
otherRoutes(rs) == SelectSeq(rs, LAMBDA r : r.url # BASE_PATH)

\* the calls on the router returned, on the nested router, and the warnings
createH3Router(rs, p) ==
  IF hasPrefix(p)
  THEN LET np == normalizedPrefix(p.id)
           found == rootRoutes(rs) # <<>>
           hasBasePath == rootRoutes(rs)[1]
           rest == IF found THEN otherRoutes(rs) ELSE rs
       IN  [baseRouter |->
              (IF found
               THEN <<RouterAdd(np, hasBasePath.handler, hasBasePath.method)>>
               ELSE <<>>)
              \o <<RouterUse(np \o <<"/", "*", "*">>, np)>>,
            nestedRouter |-> addRoutes(rest),
            warnings |-> addRoutesWarnings(rest)]
  ELSE [baseRouter |-> addRoutes(rs),
        nestedRouter |-> <<>>,
        warnings |-> addRoutesWarnings(rs)]

(***************************************************************************)
(* Inputs of the router builder: the flat routes of at most MaxRoutes      *)
(* entries, their method absent, supported or not, and a prefix that is    *)
(* absent or a string of slashes and letters.                              *)
(***************************************************************************)
RouterMethodValues == FlatMethods \cup {"invalid-method"}

RouterRoutes(n) ==
  {[i \in 1..n |-> [url |-> us[i], method |-> ms[i], handler |-> i]] :
     us \in [1..n -> Urls], ms \in [1..n -> RouterMethodValues]}

RouterRouteArrays == UNION {RouterRoutes(n) : n \in 0..MaxRoutes}

RouterPrefixes == {Undef} \cup {Str(p) : p \in StringsUpTo({"/", "a"}, MaxPrefixLen)}

InitRouter ==
  /\ pc = "init"
  /\ routerRoutes \in RouterRouteArrays
  /\ routerPrefix \in RouterPrefixes
  /\ baseRouter = <<>>
  /\ nestedRouter = <<>>
  /\ warnings = <<>>
  /\ prefixIdle
  /\ routesIdle
  /\ middlewareIdle
  /\ bootstrapIdle
  /\ appIdle
  /\ serverIdle
  /\ joinIdle

CallCreateH3Router ==
  /\ pc = "init"
  /\ baseRouter' = createH3Router(routerRoutes, routerPrefix).baseRouter
  /\ nestedRouter' = createH3Router(routerRoutes, routerPrefix).nestedRouter
  /\ warnings' = createH3Router(routerRoutes, routerPrefix).warnings
  /\ pc' = "done"
  /\ UNCHANGED <<routerRoutes, routerPrefix, prefixVars, routesVars, middlewareVars,
                 bootstrapVars, appVars, serverVars, joinVars>>

(***************************************************************************)
(* The earlier createH3Router and createNestedRouter, src/src/router.ts    *)
(* 20-59: every route goes on one router, which a truthy prefix mounts     *)
(* under the base router.                                                  *)
(***************************************************************************)
\* baseRouter.use(`${prefix}/**`, useBase(prefix, router.handler))
createNestedRouter(p) ==
  <<RouterUse(normalizedPrefix(p) \o <<"/", "*", "*">>, normalizedPrefix(p))>>

routerTsCreateH3Router(rs, p) ==
  IF truthy(p)
  THEN [baseRouter |-> createNestedRouter(p.id),
        nestedRouter |-> addRoutes(rs),
        warnings |-> addRoutesWarnings(rs)]
  ELSE [baseRouter |-> addRoutes(rs),
        nestedRouter |-> <<>>,
        warnings |-> addRoutesWarnings(rs)]

CallRouterTsCreateH3Router ==
  /\ pc = "init"
  /\ baseRouter' = routerTsCreateH3Router(routerRoutes, routerPrefix).baseRouter
  /\ nestedRouter' = routerTsCreateH3Router(routerRoutes, routerPrefix).nestedRouter
  /\ warnings' = routerTsCreateH3Router(routerRoutes, routerPrefix).warnings
  /\ pc' = "doneRouterTs"
  /\ UNCHANGED <<routerRoutes, routerPrefix, prefixVars, routesVars, middlewareVars,
                 bootstrapVars, appVars, serverVars, joinVars>>

NextRouter == CallCreateH3Router \/ CallRouterTsCreateH3Router

SpecRouter == InitRouter /\ [][NextRouter]_vars

\* the add calls that register the handler of route i
addsOf(router, i) ==
  {c \in 1..Len(router) :
     router[c].fn = "add" /\ router[c].handler = routerRoutes[i].handler}

\* C11: for every route array and prefix setting createH3Router returns,
\* registers nothing for a route whose method the router does not support
\* and warns about it, and registers every route whose method is supported.
C11_UnsupportedSkippedSiblingsRegistered ==
  pc = "done"
    => \A i \in 1..Len(routerRoutes) :
         IF unsupported(routerRoutes[i])
         THEN /\ addsOf(baseRouter, i) = {}
              /\ addsOf(nestedRouter, i) = {}
              /\ \E w \in 1..Len(warnings) : warnings[w] = routerRoutes[i].method
         ELSE Cardinality(addsOf(baseRouter, i)) + Cardinality(addsOf(nestedRouter, i)) = 1

\* the normalized prefix of a prefix string: a leading slash, no trailing one
claimedPrefix(p) == cleanPrefix(p.id)

\* C12: with a prefix other than "/", every route whose url is exactly "/" is
\* registered on the base router at the normalized prefix and not on the
\* nested router, every route with another url (and a supported method) is
\* registered on the nested router under its url, and the nested router is
\* mounted at the normalized prefix + "/**" with the prefix as base.
C12_RootRouteOnBaseRouterAtPrefix ==
  (pc = "done" /\ hasPrefix(routerPrefix)
     /\ \E i \in 1..Len(routerRoutes) : routerRoutes[i].url = BASE_PATH)
    => /\ \A i \in 1..Len(routerRoutes) :
            IF routerRoutes[i].url = BASE_PATH
            THEN /\ \E c \in addsOf(baseRouter, i) :
                      baseRouter[c].path = claimedPrefix(routerPrefix)
                 /\ addsOf(nestedRouter, i) = {}
            ELSE ~unsupported(routerRoutes[i])
                   => /\ \E c \in addsOf(nestedRouter, i) :
                           nestedRouter[c].path = routerRoutes[i].url
                      /\ addsOf(baseRouter, i) = {}
       /\ \E c \in 1..Len(baseRouter) :
            baseRouter[c] = RouterUse(claimedPrefix(routerPrefix) \o <<"/", "*", "*">>,
                                      claimedPrefix(routerPrefix))

\* C21: every route whose method field is absent is registered with method
\* get, whatever its url (the root url "/" included) and with or without a
\* prefix.
C21_AbsentMethodRegisteredAsGet ==
  pc = "done"
    => \A i \in 1..Len(routerRoutes) :
         routerRoutes[i].method = Undefined
           => /\ addsOf(baseRouter, i) \cup addsOf(nestedRouter, i) # {}
              /\ \A c \in addsOf(baseRouter, i) : baseRouter[c].method = "get"
              /\ \A c \in addsOf(nestedRouter, i) : nestedRouter[c].method = "get"

\* the prefix is one of the spellings s, "/"+s, "/"+s+"/" of a segment s
spellingOf(p, s) ==
  p \in {s, <<"/">> \o s, <<"/">> \o s \o <<"/">>}

PrefixSegments == {s \in StringsUpTo({"a"}, MaxPrefixLen) : s # <<>>}

\* the use call that mounts the nested router
mounts(router) == {c \in 1..Len(router) : router[c].fn = "use"}

\* C22: for every segment s the prefixes s, "/"+s and "/"+s+"/" give the same
\* result, that of the normalized prefix "/"+s: a root route is registered on
\* the base router at "/"+s and the nested router is mounted at "/"+s+"/**"
\* with base "/"+s.  Stated for createH3Router and for the earlier
\* createNestedRouter.
C22_PrefixSpellingsAgree ==
  \A s \in PrefixSegments :
    (pc \in {"done", "doneRouterTs"} /\ routerPrefix.kind = "string"
       /\ spellingOf(routerPrefix.id, s))
      => /\ mounts(baseRouter) # {}
         /\ \A c \in mounts(baseRouter) :
              baseRouter[c] = RouterUse(<<"/">> \o s \o <<"/", "*", "*">>, <<"/">> \o s)
         /\ \A c \in 1..Len(baseRouter) :
              baseRouter[c].fn = "add" => baseRouter[c].path = <<"/">> \o s

\* C26: with a prefix other than "/", every route with a supported method is
\* registered exactly once: on the base router if its url is "/", on the
\* nested router otherwise; several routes of url "/" are all registered.
C26_NoRouteLostUnderPrefix ==
  (pc = "done" /\ hasPrefix(routerPrefix))
    => \A i \in 1..Len(routerRoutes) :
         ~unsupported(routerRoutes[i])
           => IF routerRoutes[i].url = BASE_PATH
              THEN Cardinality(addsOf(baseRouter, i)) = 1 /\ addsOf(nestedRouter, i) = {}
              ELSE Cardinality(addsOf(nestedRouter, i)) = 1 /\ addsOf(baseRouter, i) = {}

(***************************************************************************)
(* createAppServer, src/src/server.ts 7-28, with registerMiddlewares,      *)
(* src/src/utils.ts 154-164, and registerRoutes, src/src/routes.ts 91-103. *)
(* The app is known by the calls made on it, in order; serve(app) is the   *)
(* last of them.                                                           *)
(***************************************************************************)
AppCall(fn, method, route, args) ==
  [fn |-> fn, method |-> method, route |-> route, args |-> args]

\* the elements of an array, in index order
items(arr) == [i \in 1..Len(arr.props) |-> arr.props[i].val]

\* app.use(...middleware) for every parsed middleware
registerMiddlewares(mws) ==
  IF ~(isArray(mws) /\ Len(mws.props) # 0)
  THEN <<>>
  ELSE LET parsed == parseMiddlewares(items(mws))
       IN  [i \in 1..Len(parsed) |-> AppCall("use", Undefined, <<>>, parsed[i])]

\* app.all(route, handler, options) or app.on(method, route, handler, options)
registerRoute(t) ==
  IF t.method = ALL_HTTP_METHOD
  THEN AppCall("all", Undefined, t.route, <<t.handler, t.options>>)
  ELSE AppCall("on", t.method, t.route, <<t.handler, t.options>>)

registerRoutes(rts) ==
  IF ~(isArray(rts) /\ Len(rts.props) # 0)
  THEN <<>>
  ELSE LET parsed == parseRoutes(rts, <<>>)
       IN  [i \in 1..Len(parsed) |-> registerRoute(parsed[i])]

\* serve(app, { port })
serve == AppCall("serve", Undefined, <<>>, <<>>)

createAppServerServeFirst(rts, mws) ==
  <<serve>> \o registerMiddlewares(mws) \o registerRoutes(rts)

createAppServer(rts, mws) ==
  registerMiddlewares(mws) \o registerRoutes(rts) \o <<serve>>

(***************************************************************************)
(* Inputs of createAppServer: the routes option is a route tree of weight  *)
(* at most MaxAppWeight or an array of handlers; the middlewares option is *)
(* absent or an array of at most MaxEntries entries, each a bare function, *)
(* { handler }, { route, handler, options } or { middleware }.             *)
(***************************************************************************)
AppTrees ==
  {Obj(<<>>, ps) : ps \in UNION {TreeProps(w, <<>>, Segments) : w \in 0..MaxAppWeight}}

ArrayRoutes == {Arr(<<>>, <<>>), Arr(<<>>, <<Prop("0", Fn(<<"0">>))>>)}

AppEntryKinds == {"function", "handler", "full", "middleware"}

AppEntry(kind, at) ==
  CASE kind = "function" -> Fn(at)
    [] kind = "handler" -> Obj(at, <<Prop("handler", Fn(at \o <<"handler">>))>>)
    [] kind = "full" ->
         Obj(at, <<Prop("route", Str(<<"/", "x">>)),
                   Prop("handler", Fn(at \o <<"handler">>)),
                   Prop("options", Obj(at \o <<"options">>, <<>>))>>)
    [] kind = "middleware" -> Obj(at, <<Prop("middleware", Fn(at \o <<"middleware">>))>>)

AppMiddlewareArrays ==
  UNION {{Arr(<<>>, [i \in 1..n |-> Prop(ToString(i - 1), AppEntry(c[i], <<ToString(i - 1)>>))]) :
            c \in [1..n -> AppEntryKinds]} :
         n \in 0..MaxEntries}

InitApp ==
  /\ pc = "init"
  /\ appRoutes \in AppTrees \cup ArrayRoutes
  /\ appMiddlewares \in {Undef} \cup AppMiddlewareArrays
  /\ appCalls = <<>>
  /\ prefixIdle
  /\ routesIdle
  /\ middlewareIdle
  /\ bootstrapIdle
  /\ routerIdle
  /\ serverIdle
  /\ joinIdle

CallCreateAppServer ==
  /\ pc = "init"
  /\ appCalls' = createAppServer(appRoutes, appMiddlewares)
  /\ pc' = "done"
  /\ UNCHANGED <<appRoutes, appMiddlewares, prefixVars, routesVars, middlewareVars,
                 bootstrapVars, routerVars, serverVars, joinVars>>

NextApp == CallCreateAppServer

SpecApp == InitApp /\ [][NextApp]_vars

\* the app.all and app.on calls, in order
routeCalls == SelectSeq(appCalls, LAMBDA c : c.fn \in {"all", "on"})

\* the app.use calls, in order
useCalls == SelectSeq(appCalls, LAMBDA c : c.fn = "use")

claimedRouteCall(t) ==
  IF t.method = "ALL"
  THEN AppCall("all", Undefined, t.route, <<t.handler, t.options>>)
  ELSE AppCall("on", t.method, t.route, <<t.handler, t.options>>)

\* C13: for every non-empty route tree, createAppServer (through
\* registerRoutes) makes exactly one registration call per tuple of
\* parseRoutes(tree), in tuple order: app.all(route, handler, options) for
\* method "ALL", app.on(method, route, handler, options) otherwise.
C13_OneRegistrationPerTuple ==
  (pc = "done" /\ appRoutes.kind = "object" /\ Len(appRoutes.props) > 0)
    => routeCalls = [i \in 1..Len(parseRoutes(appRoutes, <<>>)) |->
                       claimedRouteCall(parseRoutes(appRoutes, <<>>)[i])]

\* the normalized tuple of a middleware entry as C9 and C19 give it
claimedNormalized(entry) ==
  IF claimedConfig(entry) THEN claimedTuple(entry) ELSE <<entry>>

\* C14: no app.use call when the middleware list is absent or empty;
\* otherwise exactly one app.use call per entry, in input order, with the
\* elements of the entry's normalized tuple as arguments.
C14_OneUsePerEntryInOrder ==
  pc = "done"
    => useCalls = [i \in 1..Len(appMiddlewares.props) |->
                     AppCall("use", Undefined, <<>>,
                             claimedNormalized(appMiddlewares.props[i].val))]

(***************************************************************************)
(* server.listen, server.close, findAvailablePort and isPortAvailable,     *)
(* src/unnamed/part_002 62-129 and 170-203.                                *)
(*                                                                         *)
(* The ports are 1..MaxPort, MaxPort standing for 65535.  A bind succeeds  *)
(* or fails at the call of http.listen; the 'listening' or 'error' event   *)
(* that reports it is emitted later, and so is every continuation of a     *)
(* promise: each is a step of its own, taken in any order.  The user makes *)
(* at most MaxListens listen calls and awaits every call before the next.  *)
(* pc is the position of the user: idle, awaitListen or awaitClose.        *)
(***************************************************************************)
Ports == 1..MaxPort

\* the promise of a listen call: its argument (0 when absent), targetPort,
\* its state, and whether the bind of targetPort failed
Call(arg, target, state, conflict) ==
  [arg |-> arg, target |-> target, state |-> state, conflict |-> conflict]

\* resolve() or reject() of the promise of call k: the first one wins
settle(cs, k, state) ==
  IF cs[k].state = "pending" THEN [cs EXCEPT ![k].state = state] ELSE cs

boundByProbes(ps) == {ps[i].port : i \in {j \in 1..Len(ps) : ps[j].stage = "bound"}}

\* no server holds port p
portFree(p, ps) == p \notin otherPorts /\ p # httpPort /\ p \notin boundByProbes(ps)

\* isPortAvailable(p) up to the bind of its temporary server
isPortAvailable(k, p, ps) ==
  [call |-> k, port |-> p, stage |-> IF portFree(p, ps) THEN "bound" ELSE "failed"]

\* tryListen(p) of call k: http.listen throws when the server has a handle,
\* else registers the callback and binds or fails
tryListen(k, p) ==
  IF httpPort # 0
  THEN [thrown |-> TRUE,
        listeningListeners |-> listeningListeners,
        httpPort |-> httpPort,
        pendingListening |-> pendingListening,
        pendingErrors |-> pendingErrors]
  ELSE [thrown |-> FALSE,
        listeningListeners |-> Append(listeningListeners, [call |-> k, portToTry |-> p]),
        httpPort |-> IF portFree(p, probes) THEN p ELSE 0,
        pendingListening |-> pendingListening \/ portFree(p, probes),
        pendingErrors |-> IF portFree(p, probes) THEN pendingErrors ELSE pendingErrors + 1]

\* the listeners of an 'error' event with code EADDRINUSE, called in order:
\* the handler of a listen call starts findAvailablePort(targetPort), whose
\* first isPortAvailable binds at once; reject settles its promise
RECURSIVE runErrorListeners(_, _, _, _)
runErrorListeners(ls, i, ps, cs) ==
  IF i > Len(ls) THEN [probes |-> ps, calls |-> cs]
  ELSE IF ls[i].kind = "handler" /\ cs[ls[i].call].target + 1 <= MaxPort
       THEN runErrorListeners(ls, i + 1,
                              Append(ps, isPortAvailable(ls[i].call,
                                                         cs[ls[i].call].target + 1, ps)),
                              cs)
       ELSE runErrorListeners(ls, i + 1, ps, settle(cs, ls[i].call, "rejected"))

\* the callbacks of a 'listening' event, called in order: each resolves
RECURSIVE runListeningListeners(_, _, _)
runListeningListeners(ls, i, cs) ==
  IF i > Len(ls) THEN cs
  ELSE runListeningListeners(ls, i + 1, settle(cs, ls[i].call, "resolved"))

RemoveAt(ps, i) == SubSeq(ps, 1, i - 1) \o SubSeq(ps, i + 1, Len(ps))

InitServer ==
  /\ pc = "idle"
  /\ port \in Ports
  /\ otherPorts \in SUBSET Ports
  /\ serverPort = 0
  /\ serverUrl = 0
  /\ httpPort = 0
  /\ calls = <<>>
  /\ errorListeners = <<>>
  /\ listeningListeners = <<>>
  /\ pendingListening = FALSE
  /\ pendingErrors = 0
  /\ probes = <<>>
  /\ lastOp = "none"
  /\ envStable = TRUE
  /\ prefixIdle
  /\ routesIdle
  /\ middlewareIdle
  /\ bootstrapIdle
  /\ routerIdle
  /\ appIdle
  /\ joinIdle

otherVars ==
  <<prefixVars, routesVars, middlewareVars, bootstrapVars, routerVars, appVars, joinVars>>

\* server.listen(listenPort) up to the return of the promise
UserListen(listenPort) ==
  LET k == Len(calls) + 1
      targetPort == IF listenPort # 0 THEN listenPort ELSE port
      r == tryListen(k, targetPort)
  IN  /\ pc = "idle"
      /\ Len(calls) < MaxListens
      /\ errorListeners' = Append(errorListeners, [kind |-> "handler", call |-> k])
      /\ listeningListeners' = r.listeningListeners
      /\ httpPort' = r.httpPort
      /\ pendingListening' = r.pendingListening
      /\ pendingErrors' = r.pendingErrors
      /\ calls' = Append(calls, Call(listenPort, targetPort,
                                     IF r.thrown THEN "rejected" ELSE "pending",
                                     ~r.thrown /\ r.httpPort = 0))
      /\ envStable' = TRUE
      /\ pc' = "awaitListen"
      /\ UNCHANGED <<port, serverPort, serverUrl, otherPorts, probes, lastOp, otherVars>>

\* the await of the listen call returns or throws
UserResume ==
  /\ pc = "awaitListen"
  /\ calls[Len(calls)].state # "pending"
  /\ pc' = "idle"
  /\ lastOp' = "listen"
  /\ UNCHANGED <<port, serverPort, serverUrl, httpPort, otherPorts, calls, errorListeners,
                 listeningListeners, pendingListening, pendingErrors, probes, envStable,
                 otherVars>>

\* server.close() up to its await: server.http.close() releases the port
UserClose ==
  /\ pc = "idle"
  /\ httpPort' = 0
  /\ pc' = "awaitClose"
  /\ UNCHANGED <<port, serverPort, serverUrl, otherPorts, calls, errorListeners,
                 listeningListeners, pendingListening, pendingErrors, probes, lastOp,
                 envStable, otherVars>>

\* server.close() after its await, and the await of the user
UserCloseDone ==
  /\ pc = "awaitClose"
  /\ serverPort' = 0
  /\ serverUrl' = 0
  /\ pc' = "idle"
  /\ lastOp' = "close"
  /\ UNCHANGED <<port, httpPort, otherPorts, calls, errorListeners, listeningListeners,
                 pendingListening, pendingErrors, probes, envStable, otherVars>>

\* the 'listening' event of server.http, emitted only while it has a handle
EmitListening ==
  /\ pendingListening
  /\ pendingListening' = FALSE
  /\ IF httpPort = 0
     THEN UNCHANGED <<serverPort, serverUrl, calls, listeningListeners>>
     ELSE /\ serverPort' = httpPort
          /\ serverUrl' = httpPort
          /\ calls' = runListeningListeners(listeningListeners, 1, calls)
          /\ listeningListeners' = <<>>
  /\ UNCHANGED <<pc, port, httpPort, otherPorts, errorListeners, pendingErrors, probes,
                 lastOp, envStable, otherVars>>

\* an 'error' event of server.http with code EADDRINUSE
EmitError ==
  /\ pendingErrors > 0
  /\ pendingErrors' = pendingErrors - 1
  /\ probes' = runErrorListeners(errorListeners, 1, probes, calls).probes
  /\ calls' = runErrorListeners(errorListeners, 1, probes, calls).calls
  /\ UNCHANGED <<pc, port, serverPort, serverUrl, httpPort, otherPorts, errorListeners,
                 listeningListeners, pendingListening, lastOp, envStable, otherVars>>

\* isPortAvailable: the temporary server is listening and is closed
ProbeListening(i) ==
  /\ i \in 1..Len(probes)
  /\ probes[i].stage = "bound"
  /\ probes' = [probes EXCEPT ![i].stage = "closing"]
  /\ UNCHANGED <<pc, port, serverPort, serverUrl, httpPort, otherPorts, calls,
                 errorListeners, listeningListeners, pendingListening, pendingErrors,
                 lastOp, envStable, otherVars>>

\* isPortAvailable resolves false: findAvailablePort goes on to the next
\* port, or throws past the last one and the promise of the call is rejected
ProbeFailed(i) ==
  /\ i \in 1..Len(probes)
  /\ probes[i].stage = "failed"
  /\ IF probes[i].port + 1 <= MaxPort
     THEN /\ probes' = [probes EXCEPT
                          ![i] = isPortAvailable(probes[i].call, probes[i].port + 1, probes)]
          /\ UNCHANGED calls
     ELSE /\ probes' = RemoveAt(probes, i)
          /\ calls' = settle(calls, probes[i].call, "rejected")
  /\ UNCHANGED <<pc, port, serverPort, serverUrl, httpPort, otherPorts, errorListeners,
                 listeningListeners, pendingListening, pendingErrors, lastOp, envStable,
                 otherVars>>

\* isPortAvailable resolves true and findAvailablePort returns the port: the
\* error listeners are replaced by reject and tryListen(availablePort) runs
ProbeFound(i) ==
  LET k == probes[i].call
      r == tryListen(k, probes[i].port)
  IN  /\ i \in 1..Len(probes)
      /\ probes[i].stage = "closing"
      /\ errorListeners' = <<[kind |-> "reject", call |-> k]>>
      /\ listeningListeners' = r.listeningListeners
      /\ httpPort' = r.httpPort
      /\ pendingListening' = r.pendingListening
      /\ pendingErrors' = r.pendingErrors
      /\ calls' = IF r.thrown THEN settle(calls, k, "rejected") ELSE calls
      /\ probes' = RemoveAt(probes, i)
      /\ UNCHANGED <<pc, port, serverPort, serverUrl, otherPorts, lastOp, envStable,
                     otherVars>>

\* another process binds a free port
EnvTake(p) ==
  /\ portFree(p, probes)
  /\ otherPorts' = otherPorts \cup {p}
  /\ envStable' = FALSE
  /\ UNCHANGED <<pc, port, serverPort, serverUrl, httpPort, calls, errorListeners,
                 listeningListeners, pendingListening, pendingErrors, probes, lastOp,
                 otherVars>>

\* another process releases its port
EnvRelease(p) ==
  /\ p \in otherPorts
  /\ otherPorts' = otherPorts \ {p}
  /\ envStable' = FALSE
  /\ UNCHANGED <<pc, port, serverPort, serverUrl, httpPort, calls, errorListeners,
                 listeningListeners, pendingListening, pendingErrors, probes, lastOp,
                 otherVars>>

NextServer ==
  \/ \E listenPort \in {0} \cup Ports : UserListen(listenPort)
  \/ UserResume
  \/ UserClose
  \/ UserCloseDone
  \/ EmitListening
  \/ EmitError
  \/ \E i \in 1..(2 * MaxListens) : ProbeListening(i)
  \/ \E i \in 1..(2 * MaxListens) : ProbeFailed(i)
  \/ \E i \in 1..(2 * MaxListens) : ProbeFound(i)
  \/ \E p \in Ports : EnvTake(p)
  \/ \E p \in Ports : EnvRelease(p)

SpecServer == InitServer /\ [][NextServer]_vars

\* the listen call the user awaited last
awaited == calls[Len(calls)]

\* the user has awaited a listen call and has made no call since
afterListen == pc = "idle" /\ lastOp = "listen"

\* the user has awaited a close call and has made no call since
afterClose == pc = "idle" /\ lastOp = "close"

\* C15: with every listen and close call awaited before the next, port and
\* url are undefined before the first listen and after every completed
\* close; after every resolved listen both are defined and the url is
\* "http://localhost:" + port; a listen without argument that finds the
\* configured port free, as after a close, binds the configured port.
C15_PortAndUrlFollowLifecycle ==
  /\ Len(calls) = 0 => (serverPort = 0 /\ serverUrl = 0)
  /\ afterClose => (serverPort = 0 /\ serverUrl = 0)
  /\ (afterListen /\ awaited.state = "resolved")
       => (serverPort # 0 /\ serverUrl = serverPort)
  /\ (afterListen /\ awaited.state = "resolved" /\ awaited.arg = 0 /\ ~awaited.conflict)
       => serverPort = port

\* the lowest port above t that no other process holds, 0 when there is none
lowestFreeAbove(t) ==
  LET free == {p \in Ports : p > t /\ p \notin otherPorts}
  IN  IF free = {} THEN 0 ELSE CHOOSE p \in free : \A q \in free : p <= q

\* C16: a listen whose target port (its argument when given, else the
\* configured port) is in use, while a port above the target is free and no
\* other process binds or releases a port, does not reject: once the call
\* has settled it has resolved, server.port is the lowest free port above
\* the target and server.url ends in that port.
C16_FallbackBindsLowestFreePort ==
  (afterListen /\ awaited.conflict /\ envStable /\ lowestFreeAbove(awaited.target) # 0)
    => /\ awaited.target = (IF awaited.arg # 0 THEN awaited.arg ELSE port)
       /\ awaited.state = "resolved"
       /\ serverPort = lowestFreeAbove(awaited.target)
       /\ serverUrl = serverPort

\* the step rejects the promise of call k
rejects(k) ==
  /\ k \in 1..Len(calls)
  /\ calls[k].state = "pending"
  /\ calls'[k].state = "rejected"

\* findAvailablePort of call k has found its last port, MaxPort, unavailable,
\* having gone through target+1..MaxPort in order
rangeExhausted(k) ==
  \/ calls[k].target = MaxPort
  \/ \E i \in 1..Len(probes) :
       /\ probes[i].call = k
       /\ probes[i].stage = "failed"
       /\ probes[i].port = MaxPort
       /\ probes' = RemoveAt(probes, i)

\* C23: a listen call whose target port was in use is rejected only by the
\* step in which its probe has found the last port of target+1..65535
\* unavailable; it is not rejected because another process takes the port
\* the probe found free before the server binds it.
C23_RejectsOnlyWhenRangeExhausted ==
  [][\A k \in 1..MaxListens : (rejects(k) /\ calls[k].conflict) => rangeExhausted(k)]_vars

\* C27: over every sequence of listen/close cycles, the ports are probed one
\* at a time and only for the listen call in progress: at most one
\* findAvailablePort run exists, started by the handler of the latest call.
C27_OneProbeForTheCallInProgress ==
  /\ Len(probes) <= 1
  /\ \A i \in 1..Len(probes) : probes[i].call = Len(calls)

(***************************************************************************)
(* The same server with a user who does not await listen: close() is       *)
(* called while the promise of the listen call is pending, is awaited, and *)
(* no call follows it.                                                     *)
(***************************************************************************)
\* server.close() up to its await, the listen call still pending
UserCloseWhilePending ==
  /\ pc = "awaitListen"
  /\ calls[Len(calls)].state = "pending"
  /\ httpPort' = 0
  /\ pc' = "awaitCloseWhilePending"
  /\ UNCHANGED <<port, serverPort, serverUrl, otherPorts, calls, errorListeners,
                 listeningListeners, pendingListening, pendingErrors, probes, lastOp,
                 envStable, otherVars>>

\* server.close() after its await; the user makes no further call
UserCloseWhilePendingDone ==
  /\ pc = "awaitCloseWhilePending"
  /\ serverPort' = 0
  /\ serverUrl' = 0
  /\ pc' = "closed"
  /\ lastOp' = "close"
  /\ UNCHANGED <<port, httpPort, otherPorts, calls, errorListeners, listeningListeners,
                 pendingListening, pendingErrors, probes, envStable, otherVars>>

NextServerOverlap ==
  \/ NextServer
  \/ UserCloseWhilePending
  \/ UserCloseWhilePendingDone

SpecServerOverlap == InitServer /\ [][NextServerOverlap]_vars

\* C29: once a close() that was called while a listen() was pending has
\* resolved, and no listen call follows, port and url are undefined and the
\* server is not bound to a port.
C29_ClosedServerStaysUnbound ==
  pc = "closed" => (serverPort = 0 /\ serverUrl = 0 /\ httpPort = 0)

(***************************************************************************)
(* The two constructors and what follows them.  createAppServer, as above, *)
(* registers and then serves.  createMockServer, src/unnamed/part_002      *)
(* 32-56, builds the router, bootstraps the app and creates server.http;   *)
(* listen and close are then called as above, here with the ports of the   *)
(* other processes fixed.                                                  *)
(***************************************************************************)
\* options {routes, prefix, middlewares} of createMockServer: a root route
\* and another, a prefix, an after-phase and a before-phase middleware
MockServerOptions ==
  {[routes |-> <<[url |-> <<"/">>, method |-> "get", handler |-> 1],
                 [url |-> <<"/", "a">>, method |-> Undefined, handler |-> 2]>>,
    prefix |-> Str(<<"/", "a">>),
    middlewares |->
      <<[name |-> Undefined, isAfter |-> "true", middleware |-> Fn(<<"1", "middleware">>)],
        [name |-> Undefined, isAfter |-> Undefined,
         middleware |-> Fn(<<"2", "middleware">>)]>>]}

\* options {routes, middlewares} of createAppServer: a tree of one node at
\* most, no middlewares or one entry
AppServerRoutes ==
  {Obj(<<>>, ps) : ps \in TreeProps(0, <<>>, Segments) \cup TreeProps(1, <<>>, Segments)}

AppServerMiddlewares ==
  {Undef} \cup {Arr(<<>>, <<Prop("0", AppEntry(c, <<"0">>))>>) : c \in AppEntryKinds}

InitAppServer ==
  /\ pc = "init"
  /\ appRoutes \in AppServerRoutes
  /\ appMiddlewares \in AppServerMiddlewares
  /\ appCalls = <<>>
  /\ prefixIdle
  /\ routesIdle
  /\ middlewareIdle
  /\ bootstrapIdle
  /\ routerIdle
  /\ serverIdle
  /\ joinIdle

InitMockServer ==
  /\ pc = "new"
  /\ \E o \in MockServerOptions :
       /\ routerRoutes = o.routes
       /\ routerPrefix = o.prefix
       /\ mockMiddlewares = o.middlewares
  /\ port \in Ports
  /\ otherPorts \in SUBSET Ports
  /\ baseRouter = <<>>
  /\ nestedRouter = <<>>
  /\ warnings = <<>>
  /\ appUse = <<>>
  /\ serverPort = 0
  /\ serverUrl = 0
  /\ httpPort = 0
  /\ calls = <<>>
  /\ errorListeners = <<>>
  /\ listeningListeners = <<>>
  /\ pendingListening = FALSE
  /\ pendingErrors = 0
  /\ probes = <<>>
  /\ lastOp = "none"
  /\ envStable = TRUE
  /\ prefixIdle
  /\ routesIdle
  /\ middlewareIdle
  /\ appIdle
  /\ joinIdle

\* createMockServer up to its return
CallCreateMockServer ==
  /\ pc = "new"
  /\ baseRouter' = createH3Router(routerRoutes, routerPrefix).baseRouter
  /\ nestedRouter' = createH3Router(routerRoutes, routerPrefix).nestedRouter
  /\ warnings' = createH3Router(routerRoutes, routerPrefix).warnings
  /\ appUse' = bootstrapApp(mockMiddlewares)
  /\ pc' = "idle"
  /\ UNCHANGED <<routerRoutes, routerPrefix, mockMiddlewares, prefixVars, routesVars,
                 middlewareVars, appVars, serverVars, joinVars>>

InitConstructors == InitAppServer \/ InitMockServer

NextConstructors ==
  \/ CallCreateAppServer
  \/ CallCreateMockServer
  \/ \E listenPort \in {0} \cup Ports : UserListen(listenPort)
  \/ UserResume
  \/ UserClose
  \/ UserCloseDone
  \/ EmitListening
  \/ EmitError
  \/ \E i \in 1..(2 * MaxListens) : ProbeListening(i)
  \/ \E i \in 1..(2 * MaxListens) : ProbeFailed(i)
  \/ \E i \in 1..(2 * MaxListens) : ProbeFound(i)

SpecConstructors == InitConstructors /\ [][NextConstructors]_vars

\* the constructor has returned
constructed == pc \notin {"init", "new"}

\* the registration calls made so far, on the app and on the routers
registrations == <<appCalls, appUse, baseRouter, nestedRouter>>

\* C24: in createAppServer every registration call precedes serve, in
\* createMockServer the routes and the middlewares are registered when the
\* first bind attempt is made, and after either constructor has returned no
\* step, of listen or of close, makes a registration call.
C24_RegistrationBeforeBindAndNeverAfter ==
  /\ [](pc = "done"
          => \A i \in 1..Len(appCalls) : appCalls[i].fn = "serve" <=> i = Len(appCalls))
  /\ []((Len(calls) > 0 \/ httpPort # 0)
          => /\ Len(appUse) = Len(mockMiddlewares) + 1
             /\ Cardinality(routerUses) = 1
             /\ baseRouter # <<>>)
  /\ [][constructed => registrations' = registrations]_vars

C24_Witness ==
  /\ pc = "idle"
  /\ lastOp = "close"
  /\ Len(calls) = 1
  /\ calls[1].state = "resolved"
  /\ Len(mockMiddlewares) = 2
  /\ Len(appUse) = 3
  /\ Len(routerRoutes) = 2

====
